---- MODULE Spec2Model ----
(***************************************************************************)
(* Quotation editor: the page-flow planner of QuotationPreview (the        *)
(* useMemo that splits data.items into pages), the row-height estimate it  *)
(* uses (getItemHeight / countLines), the global row numbering             *)
(* (getGlobalIndex) and the per-page render flags (isFirstPage,            *)
(* isLastPage, footer).                                                    *)
(*                                                                         *)
(* A text is a sequence of one-character strings; the line break is "\n".  *)
(* JavaScript's null is the value null below.  Indices keep the code's     *)
(* 0-based values; a sequence is read at index + 1.                        *)
(***************************************************************************)
EXTENDS Integers, Sequences, FiniteSets, TLC

VARIABLES
    items,              \* data.items, the canonical item list
    index,              \* forEach: 0-based index of the next item to place
    resultPages,        \* planner: pages closed so far
    currentPageItems,   \* planner: items of the page being filled
    currentHeight,      \* planner: height used on the page being filled
    pageIndex,          \* planner: counter bumped by the non-last overflow branch
    pages,              \* the useMemo result
    rendered,           \* what pages.map renders, one record per page
    pc,                 \* "forEach" | "render" | "done" | "idle"
    text,               \* countLines: argument text
    approxCharsPerLine, \* countLines: argument approxCharsPerLine
    totalLines,         \* countLines: returned value
    cpc,                \* "call" | "returned" | "idle"
    taxRate,            \* data.quoteDetails.taxRate, percent
    discount,           \* data.discount
    isTaxInclusive,     \* data.isTaxInclusive
    totals,             \* the amounts QuotationPreview computes and shows
    totalsV1,           \* the same of the QuotationPreview without pagination
    now,                \* the value Date.now() returns
    dragItem,           \* dragItem.current
    dragOverItem,       \* dragOverItem.current
    dragging,           \* a row is being dragged (between dragstart and dragend)
    authed,             \* the root shows App (TRUE) or LoginPage (FALSE)
    currentUser,        \* Firebase auth: the signed-in user, or "none"
    loading,            \* LoginPage: loading
    signIn,             \* LoginPage: "idle" | "pending" (signInWithEmailAndPassword)
    mounted,            \* App has been mounted
    fileName,           \* quotation.fileName
    themeColor,         \* quotation.themeColor
    logo,               \* quotation.logo
    seal,               \* quotation.seal
    store,              \* Firestore collection 'quotations': a set of documents
    savedFiles,         \* App: savedFiles
    isLoading,          \* App: isLoading
    deleteModal,        \* App: deleteModal
    ops,                \* the cloud operations awaited by a handler
    app_theme_color,    \* localStorage item 'app_theme_color'
    effectPending,      \* the theme persistence effect is due
    uploads,            \* processImage: the images being read or decoded
    edits               \* number of document edits made during the uploads

vars == <<items, index, resultPages, currentPageItems, currentHeight, pageIndex,
          pages, rendered, pc, text, approxCharsPerLine, totalLines, cpc,
          taxRate, discount, isTaxInclusive, totals, totalsV1,
          now, dragItem, dragOverItem, dragging,
          authed, currentUser, loading, signIn, mounted, fileName, themeColor,
          logo, seal, store, savedFiles, isLoading, deleteModal, ops,
          app_theme_color, effectPending, uploads, edits>>

plannerVars == <<items, index, resultPages, currentPageItems, currentHeight,
                 pageIndex, pages, rendered, pc>>

linesVars == <<text, approxCharsPerLine, totalLines, cpc>>

calcVars == <<taxRate, discount, isTaxInclusive, totals, totalsV1>>

editVars == <<now, dragItem, dragOverItem, dragging>>

loginVars == <<authed, currentUser, loading, signIn>>

docVars == <<fileName, themeColor, logo, seal>>

cloudVars == <<store, savedFiles, isLoading, deleteModal, ops>>

themeVars == <<app_theme_color, effectPending>>

uploadVars == <<uploads, edits>>

appVars == <<authed, currentUser, loading, signIn, mounted, fileName, themeColor,
             logo, seal, store, savedFiles, isLoading, deleteModal, ops,
             app_theme_color, effectPending, uploads, edits>>

----------------------------------------------------------------------------
(* Bounds of the model *)

MaxItems == 3

MaxTextLen == 4

MaxCalcItems == 2

MaxRows == 3

MaxTicks == 1

MaxUploads == 1

MaxEdits == 2

----------------------------------------------------------------------------
(* Layout constants of the planner *)

A4_CONTENT_HEIGHT == 1050

HEADER_HEIGHT == 380

FOOTER_HEIGHT == 320

PAGE_2_HEADER_HEIGHT == 60

ROW_BASE_HEIGHT == 45

ROW_LINE_HEIGHT == 24

BOTTOM_SPACER == 50

----------------------------------------------------------------------------
(* Texts *)

null == <<"null">>

\* null in a ref that holds an index (no index is negative)
nullIndex == 0 - 1

Max(a, b) == IF a >= b THEN a ELSE b

Last(s) == s[Len(s)]

Front(s) == SubSeq(s, 1, Len(s) - 1)

\* n copies of the character c
Rep(c, n) == [i \in 1..n |-> c]

\* text.split('\n'): the segments between line breaks; "" gives one empty segment
RECURSIVE split(_)
split(t) ==
    IF t = <<>> THEN << <<>> >>
    ELSE LET r == split(Front(t))
             c == Last(t)
         IN  IF c = "\n" THEN Append(r, <<>>)
             ELSE [r EXCEPT ![Len(r)] = Append(@, c)]

MathCeilFloor(a, b) == a \div b

\* Math.ceil(a / b) for a >= 0, b > 0
MathCeil(a, b) == (a + b - 1) \div b

sumLinesLastOnly(explicitLines, n) ==
    IF explicitLines = <<>> THEN 0
    ELSE Max(1, MathCeil(Len(Last(explicitLines)), n))

\* explicitLines.forEach(line => totalLines += Math.max(1, Math.ceil(line.length / n)))
RECURSIVE sumLines(_, _)
sumLines(explicitLines, n) ==
    IF explicitLines = <<>> THEN 0
    ELSE sumLines(Front(explicitLines), n)
         + Max(1, MathCeil(Len(Last(explicitLines)), n))

\* !text
falsy(t) == t = null \/ t = <<>>

countLines(t, n) ==
    IF falsy(t) THEN 1 ELSE sumLines(split(t), n)

getItemHeight(item) ==
    LET nameLines == countLines(item.name, 22)
        descLines == countLines(item.description, 35)
        specLines == countLines(item.spec, 15)
        nameBlockLines == nameLines + (IF ~falsy(item.description) THEN descLines ELSE 0)
        maxLines == Max(Max(nameBlockLines, specLines), 1)
    IN  ROW_BASE_HEIGHT + ((maxLines - 1) * ROW_LINE_HEIGHT)

----------------------------------------------------------------------------
(* The planner *)

limit == A4_CONTENT_HEIGHT - BOTTOM_SPACER

isLastItemGlobal(i, n) == i = n - 1

footerOverflows(h, ih) == h + ih + FOOTER_HEIGHT > A4_CONTENT_HEIGHT

fitsWithoutFooterLoose(h, ih) == h + ih < A4_CONTENT_HEIGHT

fitsWithoutFooter(h, ih) == h + ih < limit

exceedsLimitNoSpacer(h, ih) == h + ih > A4_CONTENT_HEIGHT

exceedsLimitFooter(h, ih) == h + ih > limit + FOOTER_HEIGHT

exceedsLimit(h, ih) == h + ih > limit

\* the planner's locals before the first item
plannerStart ==
    [resultPages |-> <<>>, currentPageItems |-> <<>>,
     currentHeight |-> HEADER_HEIGHT, pageIndex |-> 0]

pushItemAssigns(st, item, ih) ==
    [st EXCEPT !.currentPageItems = <<item>>,
               !.currentHeight = @ + ih]

\* currentPageItems.push(item); currentHeight += itemHeight
pushItem(st, item, ih) ==
    [st EXCEPT !.currentPageItems = Append(@, item),
               !.currentHeight = @ + ih]

\* last item, footer does not fit but the item does: the page is closed with it
closeWithItem(st, item) ==
    [st EXCEPT !.resultPages = Append(@, Append(st.currentPageItems, item)),
               !.currentPageItems = <<>>,
               !.currentHeight = PAGE_2_HEADER_HEIGHT]

\* last item that does not fit: the page is closed, the item opens the next
startNewPageLast(st, item, ih) ==
    [st EXCEPT !.resultPages = Append(@, st.currentPageItems),
               !.currentPageItems = <<item>>,
               !.currentHeight = PAGE_2_HEADER_HEIGHT + ih]

startNewPageNoClose(st, item, ih) ==
    [st EXCEPT !.currentPageItems = <<item>>,
               !.currentHeight = PAGE_2_HEADER_HEIGHT + ih,
               !.pageIndex = @ + 1]

startNewPageHeaderOnly(st, item, ih) ==
    [st EXCEPT !.resultPages = Append(@, st.currentPageItems),
               !.currentPageItems = <<item>>,
               !.currentHeight = PAGE_2_HEADER_HEIGHT,
               !.pageIndex = @ + 1]

\* non-last item that does not fit: the page is closed, the item opens the next
startNewPage(st, item, ih) ==
    [st EXCEPT !.resultPages = Append(@, st.currentPageItems),
               !.currentPageItems = <<item>>,
               !.currentHeight = PAGE_2_HEADER_HEIGHT + ih,
               !.pageIndex = @ + 1]

\* the body of data.items.forEach((item, index) => ...), n = data.items.length
forEachBody(st, item, i, n) ==
    LET itemHeight == getItemHeight(item)
    IN  IF isLastItemGlobal(i, n)
        THEN IF footerOverflows(st.currentHeight, itemHeight)
             THEN IF fitsWithoutFooter(st.currentHeight, itemHeight)
                  THEN closeWithItem(st, item)
                  ELSE startNewPageLast(st, item, itemHeight)
             ELSE pushItem(st, item, itemHeight)
        ELSE IF exceedsLimit(st.currentHeight, itemHeight)
             THEN startNewPage(st, item, itemHeight)
             ELSE pushItem(st, item, itemHeight)

\* the planner's locals after the first k items of its went through forEach
RECURSIVE runLoop(_, _)
runLoop(its, k) ==
    IF k = 0 THEN plannerStart
    ELSE forEachBody(runLoop(its, k - 1), its[k], k - 1, Len(its))

finalFlushNoEmptyPage(st) ==
    IF Len(st.currentPageItems) > 0
    THEN Append(st.resultPages, st.currentPageItems)
    ELSE st.resultPages

\* the statements after the loop; the value is the returned resultPages
finalFlush(st) ==
    IF Len(st.currentPageItems) > 0
    THEN Append(st.resultPages, st.currentPageItems)
    ELSE IF Len(st.resultPages) = 0
         THEN Append(st.resultPages, <<>>)
         ELSE st.resultPages

----------------------------------------------------------------------------
(* Rendering of the pages *)

RECURSIVE countBefore(_, _)
countBefore(pgs, p) ==
    IF p = 0 THEN 0 ELSE countBefore(pgs, p - 1) + Len(pgs[p])

getGlobalIndexZeroBased(pgs, p, localIndex) ==
    countBefore(pgs, p) + localIndex

getGlobalIndex(pgs, p, localIndex) ==
    countBefore(pgs, p) + localIndex + 1

isFirstPage(p) == p = 0

isLastPageOffByOne(pgs, p) == p = Len(pgs)

isLastPage(pgs, p) == p = Len(pgs) - 1

\* one iteration of pages.map((pageItems, pageIndex) => ...)
renderPage(pgs, p) ==
    LET pageItems == pgs[p + 1]
    IN  [isFirstPage |-> isFirstPage(p),
         isLastPage |-> isLastPage(pgs, p),
         fullHeader |-> isFirstPage(p),
         continuationHeader |-> ~isFirstPage(p),
         rows |-> [i \in 1..Len(pageItems) |->
                     LET globalIndex == getGlobalIndex(pgs, p, i - 1)
                     IN  [id |-> pageItems[i].id,
                          globalIndex |-> globalIndex,
                          arrayIndex |-> globalIndex - 1]],
         addItemButton |-> isLastPage(pgs, p),
         continuedNotice |-> ~isLastPage(pgs, p),
         footer |-> isLastPage(pgs, p)]

----------------------------------------------------------------------------
(* Inputs *)

NameTexts == {Rep("x", 1), Rep("\n", 13), Rep("\n", 40)}

DescriptionTexts == {null, <<>>, Rep("\n", 12)}

SpecTexts == {Rep("x", 31)}

ItemKinds ==
    [name : NameTexts, spec : SpecTexts, description : DescriptionTexts]

\* item lists with ids 1..n, quantity 1 and price 0
ItemLists ==
    UNION {
        {[i \in 1..n |->
            [id |-> i, name |-> ks[i].name, spec |-> ks[i].spec,
             description |-> ks[i].description, quantity |-> 1, price |-> 0]]
         : ks \in [1..n -> ItemKinds]}
        : n \in 0..MaxItems}

RECURSIVE TextsOfLen(_)
TextsOfLen(n) ==
    IF n = 0 THEN {<<>>}
    ELSE {Append(t, c) : t \in TextsOfLen(n - 1), c \in {"x", "\n"}}

Texts ==
    {null} \cup UNION {TextsOfLen(n) : n \in 0..MaxTextLen}
           \cup {Rep("x", 15), Rep("x", 16), Rep("x", 44), Rep("x", 50),
                 Rep("x", 22) \o <<"\n">> \o Rep("x", 23)}

CharsPerLine == {1, 2, 3, 15, 22, 35}

----------------------------------------------------------------------------
(* Specification of the planner and the render *)

locals ==
    [resultPages |-> resultPages, currentPageItems |-> currentPageItems,
     currentHeight |-> currentHeight, pageIndex |-> pageIndex]

linesIdle ==
    /\ text = null
    /\ approxCharsPerLine = 1
    /\ totalLines = 0
    /\ cpc = "idle"

\* nothing computed: the initial document's tax settings, no amounts yet
none == [computed |-> FALSE]

calcIdle ==
    /\ taxRate = 5
    /\ discount = 0
    /\ isTaxInclusive = FALSE
    /\ totals = none
    /\ totalsV1 = none

editIdle ==
    /\ now = 0
    /\ dragItem = nullIndex
    /\ dragOverItem = nullIndex
    /\ dragging = FALSE

\* the fallback of savedTheme
DefaultTheme == "#1f2937"

\* deleteModal.file: null
nullFile == [null |-> TRUE]

\* the initial deleteModal
closedModal ==
    [isOpen |-> FALSE, file |-> nullFile,
     problem |-> [answer |-> 0, options |-> {}]]

\* App is shown to a signed-in user with an empty file list, nothing in flight
appIdle ==
    /\ authed = TRUE
    /\ currentUser = "user"
    /\ loading = FALSE
    /\ signIn = "idle"
    /\ mounted = TRUE
    /\ fileName = <<>>
    /\ themeColor = DefaultTheme
    /\ logo = null
    /\ seal = null
    /\ store = {}
    /\ savedFiles = {}
    /\ isLoading = FALSE
    /\ deleteModal = closedModal
    /\ ops = {}
    /\ app_theme_color = DefaultTheme
    /\ effectPending = FALSE
    /\ uploads = {}
    /\ edits = 0

\* the user may act on App: it is mounted, its effects have run and the delete
\* dialog does not cover it
interactive == authed /\ mounted /\ ~effectPending /\ ~deleteModal.isOpen

Init ==
    /\ items \in ItemLists
    /\ index = 0
    /\ resultPages = plannerStart.resultPages
    /\ currentPageItems = plannerStart.currentPageItems
    /\ currentHeight = plannerStart.currentHeight
    /\ pageIndex = plannerStart.pageIndex
    /\ pages = <<>>
    /\ rendered = <<>>
    /\ pc = "forEach"
    /\ linesIdle
    /\ calcIdle
    /\ editIdle
    /\ appIdle

ForEachItem ==
    /\ pc = "forEach"
    /\ index < Len(items)
    /\ LET st == forEachBody(locals, items[index + 1], index, Len(items))
       IN  /\ resultPages' = st.resultPages
           /\ currentPageItems' = st.currentPageItems
           /\ currentHeight' = st.currentHeight
           /\ pageIndex' = st.pageIndex
    /\ index' = index + 1
    /\ UNCHANGED <<items, pages, rendered, pc>>
    /\ UNCHANGED linesVars
    /\ UNCHANGED calcVars
    /\ UNCHANGED editVars
    /\ UNCHANGED appVars

FinalFlush ==
    /\ pc = "forEach"
    /\ index = Len(items)
    /\ pages' = finalFlush(locals)
    /\ resultPages' = pages'
    /\ pc' = "render"
    /\ UNCHANGED <<items, index, currentPageItems, currentHeight, pageIndex, rendered>>
    /\ UNCHANGED linesVars
    /\ UNCHANGED calcVars
    /\ UNCHANGED editVars
    /\ UNCHANGED appVars

RenderPages ==
    /\ pc = "render"
    /\ rendered' = [p \in 1..Len(pages) |-> renderPage(pages, p - 1)]
    /\ pc' = "done"
    /\ UNCHANGED <<items, index, resultPages, currentPageItems, currentHeight,
                   pageIndex, pages>>
    /\ UNCHANGED linesVars
    /\ UNCHANGED calcVars
    /\ UNCHANGED editVars
    /\ UNCHANGED appVars

Next == ForEachItem \/ FinalFlush \/ RenderPages

Spec == Init /\ [][Next]_vars

----------------------------------------------------------------------------
(* Specification of countLines *)

InitLines ==
    /\ text \in Texts
    /\ approxCharsPerLine \in CharsPerLine
    /\ totalLines = 0
    /\ cpc = "call"
    /\ items = <<>>
    /\ index = 0
    /\ resultPages = <<>>
    /\ currentPageItems = <<>>
    /\ currentHeight = HEADER_HEIGHT
    /\ pageIndex = 0
    /\ pages = <<>>
    /\ rendered = <<>>
    /\ pc = "idle"
    /\ calcIdle
    /\ editIdle
    /\ appIdle

CountLines ==
    /\ cpc = "call"
    /\ totalLines' = countLines(text, approxCharsPerLine)
    /\ cpc' = "returned"
    /\ UNCHANGED <<text, approxCharsPerLine>>
    /\ UNCHANGED plannerVars
    /\ UNCHANGED calcVars
    /\ UNCHANGED editVars
    /\ UNCHANGED appVars

NextLines == CountLines

SpecLines == InitLines /\ [][NextLines]_vars

----------------------------------------------------------------------------
(* The amounts: QuotationPreview's calculations.  Amounts are integers; a   *)
(* quotient n / d is kept as the pair n, d until it is rounded.  With the    *)
(* rate in percent, price / taxFactor = 100 * price / (100 + taxRate).      *)

MathRoundFloor(n, d) == n \div d

\* Math.round(n / d) for d > 0: the nearest integer, a tie goes up (to +Infinity)
MathRound(n, d) == (2 * n + d) \div (2 * d)

getPreTaxUnitPrice(price, inclusive, rate) ==
    IF inclusive THEN MathRound(100 * price, 100 + rate) ELSE price

\* effectiveUnitPrice * item.quantity of the row render
rowAmount(item, inclusive, rate) ==
    getPreTaxUnitPrice(item.price, inclusive, rate) * item.quantity

\* data.items.forEach(item => calculatedSubtotal += unitPrice * item.quantity)
RECURSIVE calculatedSubtotal(_, _, _)
calculatedSubtotal(its, inclusive, rate) ==
    IF its = <<>> THEN 0
    ELSE calculatedSubtotal(Front(its), inclusive, rate)
         + rowAmount(Last(its), inclusive, rate)

\* the QuotationPreview without pagination rounds the row, not the unit price
rowAmountV1(item, inclusive, rate) ==
    IF inclusive
    THEN MathRound(100 * (item.price * item.quantity), 100 + rate)
    ELSE item.price * item.quantity

RECURSIVE calculatedSubtotalV1(_, _, _)
calculatedSubtotalV1(its, inclusive, rate) ==
    IF its = <<>> THEN 0
    ELSE calculatedSubtotalV1(Front(its), inclusive, rate)
         + rowAmountV1(Last(its), inclusive, rate)

taxableAmountNoFloor(subtotal, disc) == subtotal - disc

\* Math.max(0, calculatedSubtotal - (data.discount || 0))
taxableAmount(subtotal, disc) == Max(0, subtotal - disc)

taxAmountFloor(taxable, rate) == MathRoundFloor(taxable * rate, 100)

\* Math.round(taxableAmount * (data.quoteDetails.taxRate / 100))
taxAmount(taxable, rate) == MathRound(taxable * rate, 100)

totalOf(taxable, tax) == taxable + tax

\* what the paginated QuotationPreview computes in one render
computeTotals(its, inclusive, rate, disc) ==
    LET subtotal == calculatedSubtotal(its, inclusive, rate)
        taxable == taxableAmount(subtotal, disc)
        tax == taxAmount(taxable, rate)
    IN  [computed |-> TRUE,
         effectiveUnitPrice |->
            [k \in 1..Len(its) |-> getPreTaxUnitPrice(its[k].price, inclusive, rate)],
         rowAmount |-> [k \in 1..Len(its) |-> rowAmount(its[k], inclusive, rate)],
         calculatedSubtotal |-> subtotal,
         taxableAmount |-> taxable,
         taxAmount |-> tax,
         total |-> totalOf(taxable, tax)]

\* what the QuotationPreview without pagination computes in one render
computeTotalsV1(its, inclusive, rate, disc) ==
    LET subtotal == calculatedSubtotalV1(its, inclusive, rate)
        taxable == taxableAmount(subtotal, disc)
        tax == taxAmount(taxable, rate)
    IN  [computed |-> TRUE,
         rowAmount |-> [k \in 1..Len(its) |-> rowAmountV1(its[k], inclusive, rate)],
         calculatedSubtotal |-> subtotal,
         taxableAmount |-> taxable,
         taxAmount |-> tax,
         total |-> totalOf(taxable, tax)]

Prices == {-5, 10, 1050, 10000}

Quantities == {-1, 1, 3}

TaxRates == {0, 5, 100}

Discounts == {0, 50, 100000}

\* item lists that differ in price and quantity only
CalcItemLists ==
    UNION {
        {[i \in 1..n |->
            [id |-> i, name |-> Rep("x", 1), spec |-> <<>>, description |-> null,
             quantity |-> ks[i].quantity, price |-> ks[i].price]]
         : ks \in [1..n -> [price : Prices, quantity : Quantities]]}
        : n \in 0..MaxCalcItems}

plannerIdle ==
    /\ index = 0
    /\ resultPages = <<>>
    /\ currentPageItems = <<>>
    /\ currentHeight = HEADER_HEIGHT
    /\ pageIndex = 0
    /\ pages = <<>>
    /\ rendered = <<>>
    /\ pc = "idle"

InitCalc ==
    /\ items \in CalcItemLists
    /\ taxRate \in TaxRates
    /\ discount \in Discounts
    /\ isTaxInclusive \in BOOLEAN
    /\ totals = none
    /\ totalsV1 = none
    /\ plannerIdle
    /\ linesIdle
    /\ editIdle
    /\ appIdle

ComputeTotals ==
    /\ totals = none
    /\ totals' = computeTotals(items, isTaxInclusive, taxRate, discount)
    /\ UNCHANGED <<taxRate, discount, isTaxInclusive, totalsV1>>
    /\ UNCHANGED plannerVars
    /\ UNCHANGED linesVars
    /\ UNCHANGED editVars
    /\ UNCHANGED appVars

ComputeTotalsV1 ==
    /\ totalsV1 = none
    /\ totalsV1' = computeTotalsV1(items, isTaxInclusive, taxRate, discount)
    /\ UNCHANGED <<taxRate, discount, isTaxInclusive, totals>>
    /\ UNCHANGED plannerVars
    /\ UNCHANGED linesVars
    /\ UNCHANGED editVars
    /\ UNCHANGED appVars

NextCalc == ComputeTotals \/ ComputeTotalsV1

SpecCalc == InitCalc /\ [][NextCalc]_vars

----------------------------------------------------------------------------
(* Editing the item list: App's item handlers and QuotationPreview's drag   *)
(* reordering.  Date.now() is the variable now, which a tick advances; the   *)
(* handlers of one millisecond read the same value.                          *)

\* a text of n characters without a line break
InitialName == Rep("x", 6)

InitialSpec == Rep("x", 19)

\* the item of the initial quotation
initialItem ==
    [id |-> 1, name |-> InitialName, spec |-> InitialSpec, description |-> null,
     quantity |-> 1, price |-> 8500]

newItemEmptyDescription(t) ==
    [id |-> t, name |-> <<>>, spec |-> <<>>, description |-> <<>>,
     quantity |-> 1, price |-> 0]

\* { id: Date.now(), name: '', spec: '', description: null, quantity: 1, price: 0 }
newItem(t) ==
    [id |-> t, name |-> <<>>, spec |-> <<>>, description |-> null,
     quantity |-> 1, price |-> 0]

\* items.filter(item => item.id !== id)
RECURSIVE filterOutId(_, _)
filterOutId(its, id) ==
    IF its = <<>> THEN <<>>
    ELSE LET rest == filterOutId(Front(its), id)
         IN  IF Last(its).id # id THEN Append(rest, Last(its)) ELSE rest

\* deleteItem: the early return, else the filter
deleteItemResult(its, id) ==
    IF Len(its) <= 1 THEN its ELSE filterOutId(its, id)

\* items.map(item => item.id === id ? { ...item, [field]: value } : item)
updateItemResultAll(its, id, field, value) ==
    [k \in 1..Len(its) |-> [its[k] EXCEPT ![field] = value]]

updateItemResult(its, id, field, value) ==
    [k \in 1..Len(its) |->
        IF its[k].id = id THEN [its[k] EXCEPT ![field] = value] ELSE its[k]]

\* _items.splice(start, 1); start is a 0-based index
spliceRemove(its, start) ==
    IF start < Len(its)
    THEN SubSeq(its, 1, start) \o SubSeq(its, start + 2, Len(its))
    ELSE its

\* _items.splice(start, 0, item); start is a 0-based index
spliceInsert(its, start, item) ==
    LET at == IF start > Len(its) THEN Len(its) ELSE start
    IN  SubSeq(its, 1, at) \o <<item>> \o SubSeq(its, at + 1, Len(its))

sortedItemsShifted(its, from, to) ==
    LET draggedItemContent == its[from + 1]
    IN  spliceInsert(spliceRemove(its, from),
                     IF from < to THEN to - 1 ELSE to, draggedItemContent)

\* the list handleSort passes to setData when it moves a row
sortedItems(its, from, to) ==
    LET draggedItemContent == its[from + 1]
    IN  spliceInsert(spliceRemove(its, from), to, draggedItemContent)

UpdateValues ==
    [name |-> {<<"x">>}, price |-> {100}]

\* the ids updateItem is called with: those of the rows, and one of no row
UpdateIds == {items[k].id : k \in 1..Len(items)} \cup {now + 1}

InitEdit ==
    /\ items = <<initialItem>>
    /\ now = 2
    /\ dragItem = nullIndex
    /\ dragOverItem = nullIndex
    /\ dragging = FALSE
    /\ plannerIdle
    /\ linesIdle
    /\ calcIdle
    /\ appIdle

\* an edit of the document: App leaves its other state alone; the edits made
\* while an image is being read or decoded are counted, up to MaxEdits
countEdit ==
    /\ interactive
    /\ uploads # {} => edits < MaxEdits
    /\ edits' = IF uploads = {} THEN edits ELSE edits + 1
    /\ UNCHANGED <<loginVars, mounted, docVars, cloudVars, themeVars, uploads>>

Tick ==
    /\ now < 2 + MaxTicks
    /\ now' = now + 1
    /\ UNCHANGED <<items, dragItem, dragOverItem, dragging>>
    /\ UNCHANGED <<index, resultPages, currentPageItems, currentHeight, pageIndex,
                   pages, rendered, pc>>
    /\ UNCHANGED linesVars
    /\ UNCHANGED appVars
    /\ UNCHANGED calcVars

addItem ==
    /\ ~dragging
    /\ Len(items) < MaxRows
    /\ items' = Append(items, newItem(now))
    /\ UNCHANGED <<now, dragItem, dragOverItem, dragging>>
    /\ UNCHANGED <<index, resultPages, currentPageItems, currentHeight, pageIndex,
                   pages, rendered, pc>>
    /\ UNCHANGED linesVars
    /\ countEdit
    /\ UNCHANGED calcVars

deleteItem ==
    /\ ~dragging
    /\ \E k \in 1..Len(items) :
          items' = deleteItemResult(items, items[k].id)
    /\ UNCHANGED <<now, dragItem, dragOverItem, dragging>>
    /\ UNCHANGED <<index, resultPages, currentPageItems, currentHeight, pageIndex,
                   pages, rendered, pc>>
    /\ UNCHANGED linesVars
    /\ countEdit
    /\ UNCHANGED calcVars

updateItem ==
    /\ ~dragging
    /\ \E id \in UpdateIds : \E field \in DOMAIN UpdateValues :
          \E value \in UpdateValues[field] :
              items' = updateItemResult(items, id, field, value)
    /\ UNCHANGED <<now, dragItem, dragOverItem, dragging>>
    /\ UNCHANGED <<index, resultPages, currentPageItems, currentHeight, pageIndex,
                   pages, rendered, pc>>
    /\ UNCHANGED linesVars
    /\ countEdit
    /\ UNCHANGED calcVars

handleCreateNew ==
    /\ ~dragging
    /\ interactive
    /\ items' = <<newItem(now)>>
    /\ discount' = 0
    /\ fileName' = <<>>
    /\ UNCHANGED <<now, dragItem, dragOverItem, dragging>>
    /\ UNCHANGED <<index, resultPages, currentPageItems, currentHeight, pageIndex,
                   pages, rendered, pc>>
    /\ UNCHANGED linesVars
    /\ UNCHANGED <<themeColor, logo, seal, mounted>>
    /\ UNCHANGED <<loginVars, cloudVars, themeVars, uploadVars>>
    /\ UNCHANGED <<taxRate, isTaxInclusive, totals, totalsV1>>

onDragStart ==
    /\ ~dragging
    /\ \E arrayIndex \in 0..(Len(items) - 1) : dragItem' = arrayIndex
    /\ dragging' = TRUE
    /\ UNCHANGED <<items, now, dragOverItem>>
    /\ UNCHANGED <<index, resultPages, currentPageItems, currentHeight, pageIndex,
                   pages, rendered, pc>>
    /\ UNCHANGED linesVars
    /\ UNCHANGED appVars
    /\ UNCHANGED calcVars

onDragEnter ==
    /\ dragging
    /\ \E arrayIndex \in 0..(Len(items) - 1) : dragOverItem' = arrayIndex
    /\ UNCHANGED <<items, now, dragItem, dragging>>
    /\ UNCHANGED <<index, resultPages, currentPageItems, currentHeight, pageIndex,
                   pages, rendered, pc>>
    /\ UNCHANGED linesVars
    /\ UNCHANGED appVars
    /\ UNCHANGED calcVars

\* onDragEnd={handleSort}
handleSort ==
    /\ dragging
    /\ dragging' = FALSE
    /\ IF dragItem = nullIndex \/ dragOverItem = nullIndex
       THEN UNCHANGED <<items, dragItem, dragOverItem>>
       ELSE IF dragItem = dragOverItem
            THEN /\ dragItem' = nullIndex
                 /\ dragOverItem' = nullIndex
                 /\ UNCHANGED items
            ELSE /\ items' = sortedItems(items, dragItem, dragOverItem)
                 /\ dragItem' = nullIndex
                 /\ dragOverItem' = nullIndex
    /\ UNCHANGED now
    /\ UNCHANGED <<index, resultPages, currentPageItems, currentHeight, pageIndex,
                   pages, rendered, pc>>
    /\ UNCHANGED linesVars
    /\ countEdit
    /\ UNCHANGED calcVars

NextEdit ==
    \/ Tick
    \/ addItem
    \/ deleteItem
    \/ updateItem
    \/ handleCreateNew
    \/ onDragStart
    \/ onDragEnter
    \/ handleSort

SpecEdit == InitEdit /\ [][NextEdit]_vars

----------------------------------------------------------------------------
(* The application: sign-in, the open document, the cloud store *)

MaxPending == 1


MaxDigit == 1

\* the document App holds in its state quotation
quotation ==
    [fileName |-> fileName, items |-> items, themeColor |-> themeColor,
     logo |-> logo, seal |-> seal, discount |-> discount, taxRate |-> taxRate,
     isTaxInclusive |-> isTaxInclusive]

\* setQuotation(d), and the render that follows: the theme persistence effect
\* is due when quotation.themeColor has changed
setQuotation(d) ==
    /\ fileName' = d.fileName
    /\ items' = d.items
    /\ themeColor' = d.themeColor
    /\ logo' = d.logo
    /\ seal' = d.seal
    /\ discount' = d.discount
    /\ taxRate' = d.taxRate
    /\ isTaxInclusive' = d.isTaxInclusive
    /\ effectPending' = (effectPending \/ d.themeColor # themeColor)

\* the parts of the state no handler of App or LoginPage touches
appFrame ==
    /\ UNCHANGED <<index, resultPages, currentPageItems, currentHeight, pageIndex,
                   pages, rendered, pc>>
    /\ UNCHANGED linesVars
    /\ UNCHANGED <<totals, totalsV1>>
    /\ UNCHANGED <<dragItem, dragOverItem, dragging>>
    /\ UNCHANGED now

\* the document is left as it is
sameDocument ==
    UNCHANGED <<items, fileName, themeColor, logo, seal, discount, taxRate,
                isTaxInclusive>>

\* String.prototype.trim, of a text of spaces and other characters
RECURSIVE trimStart(_)
trimStart(t) ==
    IF t # <<>> /\ Head(t) = " " THEN trimStart(Tail(t)) ELSE t

RECURSIVE trimEnd(_)
trimEnd(t) ==
    IF t # <<>> /\ Last(t) = " " THEN trimEnd(Front(t)) ELSE t

trim(t) == trimEnd(trimStart(t))

\* !quotation.fileName.trim()
isBlank(t) == trim(t) = <<>>

\* setDoc(doc(db, COLLECTION_NAME, id), payload): the document of that id is
\* written, replacing the one there
setDocAdds(st, id, payload) ==
    st \cup {[id |-> id, data |-> payload]}

setDoc(st, id, payload) ==
    {r \in st : r.id # id} \cup {[id |-> id, data |-> payload]}

\* deleteDoc(doc(db, COLLECTION_NAME, id))
deleteDoc(st, id) == {r \in st : r.id # id}

\* getDocs(...).docs.map(doc => ({...doc.data(), id: doc.id}))
getDocs(st) == {r.data : r \in st}

\* the cloud operation a handler awaits, with the values its closure holds
listOp == [kind |-> "list", stage |-> "getDocs"]

saveOp(d) == [kind |-> "save", stage |-> "setDoc", doc |-> d]

deleteOp(d, m, a) ==
    [kind |-> "delete", stage |-> "deleteDoc", doc |-> d, modal |-> m,
     selectedAnswer |-> a]

\* what the try / catch / finally of handleLogin does once the sign-in settled
loginOutcomeAlways(ok) == [onLogin |-> TRUE, loading |-> FALSE]

loginOutcomeNoFinally(ok) == [onLogin |-> ok, loading |-> ~ok]

loginOutcome(ok) == [onLogin |-> ok, loading |-> FALSE]

\* the root component: App is shown once onLogin was called
showApp(shown, onLoginCalled) == shown \/ onLoginCalled

FileNames == {<<>>, <<" ">>, <<"A">>, <<"B">>}

\* LoginPage: the form is submitted
handleLogin ==
    /\ ~authed
    /\ ~loading
    /\ loading' = TRUE
    /\ signIn' = "pending"
    /\ UNCHANGED <<authed, currentUser, mounted>>
    /\ sameDocument
    /\ UNCHANGED <<cloudVars, themeVars, uploadVars>>
    /\ appFrame

\* signInWithEmailAndPassword settles: resolved (ok) or rejected
signInSettled ==
    /\ signIn = "pending"
    /\ \E ok \in BOOLEAN :
          /\ currentUser' = IF ok THEN "user" ELSE currentUser
          /\ authed' = showApp(authed, loginOutcome(ok).onLogin)
          /\ loading' = loginOutcome(ok).loading
    /\ signIn' = "idle"
    /\ UNCHANGED mounted
    /\ sameDocument
    /\ UNCHANGED <<cloudVars, themeVars, uploadVars>>
    /\ appFrame

\* localStorage.getItem('app_theme_color') || fallback
themeOrIgnored(stored, fallback) == fallback

themeOr(stored, fallback) ==
    IF stored = "null" \/ stored = "" THEN fallback ELSE stored

\* App is mounted: the initial state is built, the file list is requested
Mount ==
    /\ authed
    /\ ~mounted
    /\ mounted' = TRUE
    /\ themeColor' = themeOr(app_theme_color, DefaultTheme)
    /\ effectPending' = TRUE
    /\ ops' = ops \cup {listOp}
    /\ UNCHANGED <<items, fileName, logo, seal, discount, taxRate, isTaxInclusive>>
    /\ UNCHANGED <<store, savedFiles, isLoading, deleteModal>>
    /\ UNCHANGED <<loginVars, app_theme_color, uploadVars>>
    /\ appFrame

\* the effect on quotation.themeColor: localStorage.setItem
persistTheme ==
    /\ mounted
    /\ effectPending
    /\ app_theme_color' = themeColor
    /\ effectPending' = FALSE
    /\ sameDocument
    /\ UNCHANGED <<loginVars, mounted, cloudVars, uploadVars>>
    /\ appFrame

\* the file name input: onChange
setFileName ==
    /\ interactive
    /\ \E name \in FileNames : setQuotation([quotation EXCEPT !.fileName = name])
    /\ UNCHANGED <<loginVars, mounted, cloudVars, app_theme_color, uploadVars>>
    /\ appFrame

\* the values Math.floor(Math.random() * 5) - 2 takes in the model
WrongOffsets == {0 - 2, 0, 1, 2}

\* generateMathProblem: two digits, their sum, and two wrong options near it
Problems ==
    UNION {
        LET answer == num1 + num2
            wrongs == {w \in {answer + o : o \in WrongOffsets} : w > 0 /\ w # answer}
        IN  {[answer |-> answer, options |-> {answer} \cup W] :
                W \in {V \in SUBSET wrongs : Cardinality(V) = 2}}
        : num1 \in 1..MaxDigit, num2 \in 1..MaxDigit }

\* selectedAnswer !== deleteModal.problem.answer, negated
isRightAnswer(selectedAnswer, problem) == selectedAnswer = problem.answer

\* the document handleCreateNew sets, from the quotation d of its closure
createdNew(d, t) ==
    [d EXCEPT !.fileName = <<>>, !.items = <<newItem(t)>>, !.discount = 0]

\* the save button
handleSave ==
    /\ interactive
    /\ ~isLoading
    /\ IF isBlank(quotation.fileName)
       THEN UNCHANGED <<isLoading, ops>>
       ELSE /\ Cardinality(ops) < MaxPending
            /\ isLoading' = TRUE
            /\ ops' = ops \cup {saveOp(quotation)}
    /\ sameDocument
    /\ UNCHANGED <<store, savedFiles, deleteModal>>
    /\ UNCHANGED <<loginVars, mounted, themeVars, uploadVars>>
    /\ appFrame

\* handleSave: await saveQuotationToCloud(quotation) settles
setDocSettled ==
    /\ \E op \in ops :
          /\ op.stage = "setDoc"
          /\ \E ok \in BOOLEAN :
                IF ok
                THEN /\ store' = setDoc(store, op.doc.fileName, op.doc)
                     /\ ops' = (ops \ {op}) \cup {[op EXCEPT !.stage = "getDocs"]}
                     /\ UNCHANGED isLoading
                ELSE /\ ops' = ops \ {op}
                     /\ isLoading' = FALSE
                     /\ UNCHANGED store
    /\ sameDocument
    /\ UNCHANGED <<savedFiles, deleteModal>>
    /\ UNCHANGED <<loginVars, mounted, themeVars, uploadVars>>
    /\ appFrame

\* confirmDelete: await deleteQuotationFromCloud(deleteModal.file.fileName) settles
deleteDocSettled ==
    /\ \E op \in ops :
          /\ op.stage = "deleteDoc"
          /\ \E ok \in BOOLEAN :
                IF ok
                THEN /\ store' = deleteDoc(store, op.modal.file.fileName)
                     /\ ops' = (ops \ {op}) \cup {[op EXCEPT !.stage = "getDocs"]}
                     /\ UNCHANGED <<isLoading, deleteModal>>
                ELSE /\ ops' = ops \ {op}
                     /\ isLoading' = FALSE
                     /\ deleteModal' = [op.modal EXCEPT !.isOpen = FALSE]
                     /\ UNCHANGED store
    /\ sameDocument
    /\ UNCHANGED savedFiles
    /\ UNCHANGED <<loginVars, mounted, themeVars, uploadVars>>
    /\ appFrame

\* loadFileList: await fetchQuotationsFromCloud() settles, and the handler that
\* awaited loadFileList runs to its end
getDocsSettledOf(kind) ==
    /\ \E op \in ops :
          /\ op.kind = kind
          /\ op.stage = "getDocs"
          /\ ops' = ops \ {op}
          /\ \E ok \in BOOLEAN :
                savedFiles' = IF ok THEN getDocs(store) ELSE savedFiles
          /\ CASE op.kind = "list" ->
                    /\ sameDocument
                    /\ UNCHANGED <<isLoading, deleteModal, effectPending>>
               [] op.kind = "save" ->
                    /\ isLoading' = FALSE
                    /\ sameDocument
                    /\ UNCHANGED <<deleteModal, effectPending>>
               [] op.kind = "delete" ->
                    /\ IF op.doc.fileName = op.modal.file.fileName
                       THEN setQuotation(createdNew(op.doc, now))
                       ELSE sameDocument /\ UNCHANGED effectPending
                    /\ isLoading' = FALSE
                    /\ deleteModal' = [op.modal EXCEPT !.isOpen = FALSE]
    /\ UNCHANGED store
    /\ UNCHANGED <<loginVars, mounted, app_theme_color, uploadVars>>
    /\ appFrame

getDocsSettled == \E kind \in {"list", "save", "delete"} : getDocsSettledOf(kind)

\* the refresh button
loadFileList ==
    /\ interactive
    /\ Cardinality(ops) < MaxPending
    /\ ops' = ops \cup {listOp}
    /\ sameDocument
    /\ UNCHANGED <<store, savedFiles, isLoading, deleteModal>>
    /\ UNCHANGED <<loginVars, mounted, themeVars, uploadVars>>
    /\ appFrame

\* a file of the menu is clicked
handleLoad ==
    /\ interactive
    /\ \E file \in savedFiles :
          setQuotation([file EXCEPT
                          !.themeColor = themeOr(app_theme_color, file.themeColor)])
    /\ UNCHANGED <<loginVars, mounted, cloudVars, app_theme_color, uploadVars>>
    /\ appFrame

\* the delete button of a file of the menu
initiateDelete ==
    /\ interactive
    /\ \E file \in savedFiles : \E problem \in Problems :
          deleteModal' = [isOpen |-> TRUE, file |-> file, problem |-> problem]
    /\ sameDocument
    /\ UNCHANGED <<store, savedFiles, isLoading, ops>>
    /\ UNCHANGED <<loginVars, mounted, themeVars, uploadVars>>
    /\ appFrame

\* an option of the dialog is clicked
confirmDelete ==
    /\ authed /\ mounted /\ ~effectPending
    /\ deleteModal.isOpen
    /\ \E selectedAnswer \in deleteModal.problem.options :
          IF deleteModal.file = nullFile
          THEN UNCHANGED <<deleteModal, isLoading, ops>>
          ELSE IF ~isRightAnswer(selectedAnswer, deleteModal.problem)
               THEN /\ deleteModal' = [deleteModal EXCEPT !.isOpen = FALSE]
                    /\ UNCHANGED <<isLoading, ops>>
               ELSE /\ Cardinality(ops) < MaxPending
                    /\ isLoading' = TRUE
                    /\ ops' = ops \cup {deleteOp(quotation, deleteModal, selectedAnswer)}
                    /\ UNCHANGED deleteModal
    /\ sameDocument
    /\ UNCHANGED <<store, savedFiles>>
    /\ UNCHANGED <<loginVars, mounted, themeVars, uploadVars>>
    /\ appFrame

\* the cancel link of the dialog
cancelDelete ==
    /\ authed /\ mounted /\ ~effectPending
    /\ deleteModal.isOpen
    /\ deleteModal' = [deleteModal EXCEPT !.isOpen = FALSE]
    /\ sameDocument
    /\ UNCHANGED <<store, savedFiles, isLoading, ops>>
    /\ UNCHANGED <<loginVars, mounted, themeVars, uploadVars>>
    /\ appFrame

\* the sign-in page is shown, the browser holds no theme or a theme of before
InitApp ==
    /\ authed = FALSE
    /\ currentUser = "none"
    /\ loading = FALSE
    /\ signIn = "idle"
    /\ mounted = FALSE
    /\ items = <<initialItem>>
    /\ fileName = <<>>
    /\ themeColor = DefaultTheme
    /\ logo = null
    /\ seal = null
    /\ store = {}
    /\ savedFiles = {}
    /\ isLoading = FALSE
    /\ deleteModal = closedModal
    /\ ops = {}
    /\ app_theme_color = "null"
    /\ effectPending = FALSE
    /\ uploads = {}
    /\ edits = 0
    /\ now = 2
    /\ dragItem = nullIndex
    /\ dragOverItem = nullIndex
    /\ dragging = FALSE
    /\ plannerIdle
    /\ linesIdle
    /\ calcIdle

NextApp ==
    \/ handleLogin
    \/ signInSettled
    \/ Mount
    \/ persistTheme
    \/ setFileName
    \/ handleCreateNew
    \/ handleSave
    \/ setDocSettled
    \/ deleteDocSettled
    \/ getDocsSettled
    \/ loadFileList
    \/ handleLoad
    \/ initiateDelete
    \/ confirmDelete
    \/ cancelDelete

SpecApp == InitApp /\ [][NextApp]_vars

\* every sign-in and every cloud operation that is awaited settles
SpecAppFair ==
    /\ SpecApp
    /\ WF_vars(signInSettled)
    /\ WF_vars(setDocSettled)
    /\ WF_vars(deleteDocSettled)
    /\ \A kind \in {"list", "save", "delete"} : WF_vars(getDocsSettledOf(kind))

----------------------------------------------------------------------------
(* The remembered theme color *)

Themes == {DefaultTheme, "#ff0000", "#00ff00"}

\* a document saved before, under the name "A", with the theme c
savedBefore(c) ==
    [fileName |-> <<"A">>, items |-> <<initialItem>>, themeColor |-> c,
     logo |-> null, seal |-> null, discount |-> 0, taxRate |-> 5,
     isTaxInclusive |-> FALSE]

\* the color input: onChange
setThemeColor ==
    /\ interactive
    /\ \E c \in Themes : setQuotation([quotation EXCEPT !.themeColor = c])
    /\ UNCHANGED <<loginVars, mounted, cloudVars, app_theme_color, uploadVars>>
    /\ appFrame

\* a signed-in user opens the application: the browser holds no theme, an empty
\* one or a theme of before, and the cloud holds a document saved before
InitTheme ==
    /\ authed = TRUE
    /\ currentUser = "user"
    /\ loading = FALSE
    /\ signIn = "idle"
    /\ mounted = FALSE
    /\ items = <<initialItem>>
    /\ fileName = <<>>
    /\ themeColor = DefaultTheme
    /\ logo = null
    /\ seal = null
    /\ \E c \in Themes : store = {[id |-> <<"A">>, data |-> savedBefore(c)]}
    /\ savedFiles = {}
    /\ isLoading = FALSE
    /\ deleteModal = closedModal
    /\ ops = {}
    /\ app_theme_color \in {"null", ""} \cup Themes
    /\ effectPending = FALSE
    /\ uploads = {}
    /\ edits = 0
    /\ now = 2
    /\ dragItem = nullIndex
    /\ dragOverItem = nullIndex
    /\ dragging = FALSE
    /\ plannerIdle
    /\ linesIdle
    /\ calcIdle

NextTheme ==
    \/ Mount
    \/ persistTheme
    \/ getDocsSettled
    \/ setThemeColor
    \/ handleLoad
    \/ handleCreateNew
    \/ setFileName

SpecTheme == InitTheme /\ [][NextTheme]_vars

----------------------------------------------------------------------------
(* Logo and seal upload *)

\* canvas.toDataURL(...) of the chosen image
Images == {<<"p">>}

\* the discount input of the totals: onChange
setDiscount ==
    /\ ~dragging
    /\ \E value \in Discounts : discount' = value
    /\ countEdit
    /\ UNCHANGED <<items, taxRate, isTaxInclusive>>
    /\ appFrame

\* the tax rate input of the totals: onChange
setTaxRate ==
    /\ ~dragging
    /\ \E value \in TaxRates : taxRate' = value
    /\ countEdit
    /\ UNCHANGED <<items, discount, isTaxInclusive>>
    /\ appFrame

\* processImage(file, callback) has been called: the callback keeps the data of
\* the render in which the file was chosen
startUpload(field) ==
    /\ interactive
    /\ ~dragging
    /\ Cardinality(uploads) < MaxUploads
    /\ \E image \in Images :
          uploads' = uploads \cup
              {[field |-> field, stage |-> "reading", data |-> quotation,
                result |-> image]}
    /\ UNCHANGED edits
    /\ sameDocument
    /\ UNCHANGED <<loginVars, mounted, cloudVars, themeVars>>
    /\ appFrame

handleLogoUpload == startUpload("logo")

handleSealUpload == startUpload("seal")

\* reader.onload: the file is read, the image is given its src
readerOnload ==
    /\ \E u \in uploads :
          /\ u.stage = "reading"
          /\ uploads' = (uploads \ {u}) \cup {[u EXCEPT !.stage = "decoding"]}
    /\ UNCHANGED edits
    /\ sameDocument
    /\ UNCHANGED <<loginVars, mounted, cloudVars, themeVars>>
    /\ appFrame

\* the document the callback of an upload sets: { ...data, [field]: result }
uploaded(u) == [u.data EXCEPT ![u.field] = u.result]

\* img.onload: the image is drawn and the callback is called with the data URL
\* (nothing is called when the canvas gives no context)
imgOnload ==
    /\ \E u \in uploads :
          /\ u.stage = "decoding"
          /\ uploads' = uploads \ {u}
          /\ \E ctx \in BOOLEAN :
                IF ctx
                THEN setQuotation(uploaded(u))
                ELSE sameDocument /\ UNCHANGED effectPending
    /\ UNCHANGED edits
    /\ UNCHANGED <<loginVars, mounted, cloudVars, app_theme_color>>
    /\ appFrame

\* the document is open with one or two items, nothing is in flight
InitUpload ==
    /\ items \in {<<initialItem>>, <<initialItem, newItem(1 + 1)>>}
    /\ now = 1 + 1 + 1
    /\ dragItem = nullIndex
    /\ dragOverItem = nullIndex
    /\ dragging = FALSE
    /\ plannerIdle
    /\ linesIdle
    /\ calcIdle
    /\ appIdle

\* the uploads, and the edits made while an image is being read or decoded
NextUpload ==
    \/ handleLogoUpload
    \/ handleSealUpload
    \/ readerOnload
    \/ imgOnload
    \/ (uploads # {} /\ addItem)
    \/ (uploads # {} /\ deleteItem)
    \/ (uploads # {} /\ updateItem)
    \/ (uploads # {} /\ onDragStart)
    \/ (uploads # {} /\ onDragEnter)
    \/ (uploads # {} /\ handleSort)
    \/ (uploads # {} /\ setDiscount)
    \/ (uploads # {} /\ setTaxRate)

SpecUpload == InitUpload /\ [][NextUpload]_vars

----------------------------------------------------------------------------
(* Vocabulary of the properties *)

RECURSIVE Flatten(_)
Flatten(pgs) ==
    IF pgs = <<>> THEN <<>> ELSE Flatten(Front(pgs)) \o Last(pgs)

RECURSIVE SumHeights(_)
SumHeights(its) ==
    IF its = <<>> THEN 0 ELSE SumHeights(Front(its)) + getItemHeight(Last(its))

RECURSIVE SumOver(_, _)
SumOver(S, f) ==
    IF S = {} THEN 0
    ELSE LET x == CHOOSE y \in S : TRUE IN f[x] + SumOver(S \ {x}, f)

Min(S) == CHOOSE x \in S : \A y \in S : x <= y

\* the planner has returned and the pages are rendered
Planned == pc = "done"

\* the planner's locals when the last item comes up
BeforeLast == runLoop(items, Len(items) - 1)

LastItem == items[Len(items)]

LastItemHeight == getItemHeight(LastItem)

\* the three cases of the last item, as the specification words them
LastFooterOnly ==
    /\ BeforeLast.currentHeight + LastItemHeight + FOOTER_HEIGHT > A4_CONTENT_HEIGHT
    /\ BeforeLast.currentHeight + LastItemHeight < A4_CONTENT_HEIGHT - BOTTOM_SPACER

LastAlone ==
    /\ BeforeLast.currentHeight + LastItemHeight + FOOTER_HEIGHT > A4_CONTENT_HEIGHT
    /\ BeforeLast.currentHeight + LastItemHeight >= A4_CONTENT_HEIGHT - BOTTOM_SPACER

LastFits ==
    BeforeLast.currentHeight + LastItemHeight + FOOTER_HEIGHT <= A4_CONTENT_HEIGHT

\* the pages that hold item number k (1-based position in the list)
PagesHolding(k) ==
    {p \in 1..Len(pages) : \E i \in 1..Len(pages[p]) : pages[p][i] = items[k]}

----------------------------------------------------------------------------
(* Properties of the planner *)

\* C1: concatenating the pages in page order gives back the item list, and
\* every item is on exactly one page, once.
C1_OrderPreserved ==
    Planned =>
        /\ Flatten(pages) = items
        /\ \A k \in 1..Len(items) :
              /\ Cardinality(PagesHolding(k)) = 1
              /\ \A p \in PagesHolding(k) :
                    Cardinality({i \in 1..Len(pages[p]) : pages[p][i] = items[k]}) = 1

C1_Witness ==
    /\ Planned
    /\ Len(items) = MaxItems
    /\ Len(pages) >= 2
    /\ \A p \in 1..Len(pages) : pages[p] # <<>>

\* C2: when the last item fits under the limit but the footer does not fit
\* below it, the pages end with a page closing on that item followed by one
\* more page with no items, which carries the footer.
C2_FooterOnlyPage ==
    (Planned /\ items # <<>> /\ LastFooterOnly) =>
        /\ Len(pages) >= 2
        /\ pages[Len(pages)] = <<>>
        /\ pages[Len(pages) - 1] # <<>>
        /\ Last(pages[Len(pages) - 1]) = LastItem
        /\ rendered[Len(pages)].footer

\* C3: when the last item does not fit under the limit, the current page is
\* closed without it and the final page holds that item alone, with the footer.
C3_LastItemAlone ==
    (Planned /\ items # <<>> /\ LastAlone) =>
        /\ pages = Append(Append(BeforeLast.resultPages, BeforeLast.currentPageItems),
                          <<LastItem>>)
        /\ rendered[Len(pages)].footer
        /\ \A p \in 1..(Len(pages) - 1) : ~rendered[p].footer

C3_Witness ==
    /\ Planned
    /\ Len(items) >= 2
    /\ LastAlone
    /\ BeforeLast.currentPageItems # <<>>
    /\ Last(pages) = <<LastItem>>

\* C4: when the last item and the footer both fit, the item joins the current
\* page, which is the last page and carries the footer; no page is opened.
C4_LastItemFits ==
    (Planned /\ items # <<>> /\ LastFits) =>
        /\ pages = Append(BeforeLast.resultPages,
                          Append(BeforeLast.currentPageItems, LastItem))
        /\ rendered[Len(pages)].footer
        /\ rendered[Len(pages)].isLastPage

C4_Witness ==
    /\ Planned
    /\ Len(items) >= 2
    /\ LastFits
    /\ BeforeLast.currentPageItems # <<>>
    /\ Len(Last(pages)) >= 2

\* C5: the items go through the loop once, in list order; the first page
\* starts at 380 and every later page at 60; an item that is not the last
\* stays on the current page iff height + itemHeight <= 1000, and otherwise
\* the page is closed and the item opens the next page at 60 + itemHeight.
C5_HeightOfPage ==
    pc = "forEach" =>
        currentHeight = (IF resultPages = <<>> THEN 380 ELSE 60)
                        + SumHeights(currentPageItems)

C5_Step ==
    (pc = "forEach" /\ index < Len(items)) =>
        /\ items' = items
        /\ index' = index + 1
        /\ index < Len(items) - 1 =>
              LET item == items[index + 1]
                  itemHeight == getItemHeight(item)
              IN  IF currentHeight + itemHeight <= 1000
                  THEN /\ resultPages' = resultPages
                       /\ currentPageItems' = Append(currentPageItems, item)
                       /\ currentHeight' = currentHeight + itemHeight
                  ELSE /\ resultPages' = Append(resultPages, currentPageItems)
                       /\ currentPageItems' = <<item>>
                       /\ currentHeight' = 60 + itemHeight

C5_GreedyFlow == [](C5_HeightOfPage) /\ [][C5_Step]_vars

C5_Witness ==
    /\ pc = "forEach"
    /\ index = 2
    /\ index < Len(items)
    /\ resultPages = << <<items[1]>> >>
    /\ currentPageItems = <<items[2]>>

\* C6: an empty item list gives exactly one page, with no items, which is
\* the first and the last page and carries the footer.
C6_EmptyList ==
    (Planned /\ items = <<>>) =>
        /\ pages = << <<>> >>
        /\ Len(rendered) = 1
        /\ rendered[1].isFirstPage
        /\ rendered[1].isLastPage
        /\ rendered[1].footer
        /\ rendered[1].rows = <<>>

C6_Witness == Planned /\ items = <<>>

\* C7: the planner returns pages for every item list (the loop runs to the end
\* of the list, then the flush and the render follow, and every item is placed),
\* and an item taller than the limit is the only item on its page, wherever it
\* is in the list.
C7_OversizedAlone ==
    /\ pc = "forEach" => index \in 0..Len(items)
    /\ pc \in {"forEach", "render", "done"}
    /\ Planned => Len(pages) >= 1 /\ Flatten(pages) = items
    /\ Planned =>
          \A p \in 1..Len(pages) :
              (\E i \in 1..Len(pages[p]) :
                  getItemHeight(pages[p][i]) > A4_CONTENT_HEIGHT - BOTTOM_SPACER)
              => Len(pages[p]) = 1

C7_Witness ==
    /\ Planned
    /\ Len(items) = 3
    /\ getItemHeight(items[1]) < 100
    /\ getItemHeight(items[2]) > A4_CONTENT_HEIGHT - BOTTOM_SPACER
    /\ getItemHeight(items[3]) < 100
    /\ \E p \in 1..Len(pages) : pages[p] = <<items[2]>>

\* C8: the row number shown for an item is 1 plus its 0-based position in the
\* item list, so the numbers run 1..N over the pages, and the index used for
\* drag reordering is the item's position in the list.
C8_RowNumbering ==
    Planned =>
        /\ \A p \in 1..Len(pages) : \A i \in 1..Len(pages[p]) :
              LET row == rendered[p].rows[i]
              IN  /\ row.globalIndex \in 1..Len(items)
                  /\ items[row.globalIndex] = pages[p][i]
                  /\ row.arrayIndex = row.globalIndex - 1
                  /\ row.globalIndex = getGlobalIndex(pages, p - 1, i - 1)
        /\ LET numbers == Flatten([p \in 1..Len(pages) |->
                              [i \in 1..Len(pages[p]) |-> rendered[p].rows[i].globalIndex]])
           IN  numbers = [k \in 1..Len(items) |-> k]

C8_Witness ==
    /\ Planned
    /\ Len(pages) >= 2
    /\ Len(pages[1]) >= 1
    /\ Len(pages[2]) >= 2
    /\ rendered[2].rows[2].globalIndex = Len(pages[1]) + 2

\* C9: there is always at least one page; only page 0 is the first page, only
\* the final page is the last page, and the footer is on the last page only.
C9_PageFlags ==
    Planned =>
        /\ Len(pages) >= 1
        /\ Len(rendered) = Len(pages)
        /\ \A p \in 1..Len(pages) :
              /\ rendered[p].isFirstPage <=> p = 1
              /\ rendered[p].isLastPage <=> p = Len(pages)
              /\ rendered[p].footer <=> p = Len(pages)

C9_Witness ==
    /\ Planned
    /\ Len(pages) >= 3
    /\ rendered[3].footer
    /\ ~rendered[1].footer

----------------------------------------------------------------------------
(* Properties of countLines *)

\* the positions of the line breaks of a text
Breaks(t) == {i \in 1..Len(t) : t[i] = "\n"}

\* the lengths of the segments between line breaks, by the position before each
SegmentLength(t) ==
    [s \in {0} \cup Breaks(t) |->
        Min({b \in Breaks(t) : b > s} \cup {Len(t) + 1}) - s - 1]

\* ceil(a / b) as the least k with k * b >= a
CeilOf(a, b) == Min({k \in 0..a : k * b >= a})

EstimateOf(t, n) ==
    LET len == SegmentLength(t)
    IN  SumOver(DOMAIN len, [s \in DOMAIN len |-> CeilOf(Max(1, len[s]), n)])

\* C10: countLines returns an integer >= 1: 1 for an absent or empty text,
\* else the sum over the segments between line breaks of
\* ceil(max(1, length) / charsPerLine); 50 characters at 22 per line give 3.
C10_EstimateLines ==
    cpc = "returned" =>
        /\ totalLines \in Nat
        /\ totalLines >= 1
        /\ (text = null \/ text = <<>>) => totalLines = 1
        /\ (text # null /\ text # <<>>) => totalLines = EstimateOf(text, approxCharsPerLine)
        /\ (text = Rep("x", 50) /\ approxCharsPerLine = 22) => totalLines = 3

C10_Witness ==
    /\ cpc = "returned"
    /\ text = Rep("x", 22) \o <<"\n">> \o Rep("x", 23)
    /\ approxCharsPerLine = 22
    /\ totalLines = 3

NoBreak(t) == \A i \in 1..Len(t) : t[i] # "\n"

IsPrefix(a, b) == Len(a) <= Len(b) /\ SubSeq(b, 1, Len(a)) = a

\* C11 as stated: for a fixed charsPerLine, a text that is no longer than
\* another never has the larger estimate.
C11_MonotoneInLength ==
    (cpc = "returned" /\ text # null) =>
        \A b \in Texts \ {null} :
            Len(text) <= Len(b) => totalLines <= countLines(b, approxCharsPerLine)

\* C11 (amended): for a fixed charsPerLine the estimate is non-decreasing in
\* the length over texts without a line break, and it never decreases when a
\* text is extended at its end.
C11_MonotoneAmended ==
    (cpc = "returned" /\ text # null) =>
        \A b \in Texts \ {null} :
            (\/ NoBreak(text) /\ NoBreak(b) /\ Len(text) <= Len(b)
             \/ IsPrefix(text, b))
            => totalLines <= countLines(b, approxCharsPerLine)

C11_Witness ==
    /\ cpc = "returned"
    /\ text # null
    /\ text # <<>>
    /\ NoBreak(text)
    /\ \E b \in Texts \ {null} :
          /\ NoBreak(b)
          /\ Len(text) < Len(b)
          /\ totalLines < countLines(b, approxCharsPerLine)
    /\ \E b \in Texts \ {null} :
          /\ ~NoBreak(b)
          /\ IsPrefix(text, b)
          /\ totalLines < countLines(b, approxCharsPerLine)

----------------------------------------------------------------------------
(* Properties of getItemHeight *)

\* the row height as the specification words it: a description that is
\* present (not null) adds its lines, also when it is empty
RowHeightOf(item) ==
    LET nameBlockLines ==
            countLines(item.name, 22)
            + (IF item.description # null THEN countLines(item.description, 35) ELSE 0)
        specLines == countLines(item.spec, 15)
        maxLines == Max(Max(nameBlockLines, specLines), 1)
    IN  45 + (maxLines - 1) * 24

\* C12: the row height is 45 + (maxLines - 1) * 24 with maxLines the larger of
\* the name block and the spec column, and the name block counts the lines of
\* the description whenever it is present, an empty one included (checked for
\* every item the planner has measured so far).
C12_RowHeight ==
    \A k \in 1..index : getItemHeight(items[k]) = RowHeightOf(items[k])

----------------------------------------------------------------------------
(* Properties of the amounts *)

\* r is an integer nearest to n / d (d > 0), whichever way a tie goes
IsNearest(r, n, d) == 2 * (r * d - n) <= d /\ 2 * (n - r * d) <= d

\* n / d (d > 0) rounded to the nearest integer, a tie away from zero
RoundHalfAway(n, d) ==
    IF n >= 0 THEN (2 * n + d) \div (2 * d) ELSE 0 - ((2 * (0 - n) + d) \div (2 * d))

RECURSIVE SumSeq(_)
SumSeq(q) == IF q = <<>> THEN 0 ELSE SumSeq(Front(q)) + Last(q)

\* a row amount as the specification words it: the unit price is rounded, then
\* multiplied by the quantity
IsRowAmount(a, item) ==
    IF isTaxInclusive
    THEN \E u \in {(100 * item.price) \div (100 + taxRate),
                    (100 * item.price) \div (100 + taxRate) + 1} :
            /\ IsNearest(u, 100 * item.price, 100 + taxRate)
            /\ a = u * item.quantity
    ELSE a = item.price * item.quantity

RowAmountsOf(t) ==
    /\ \A k \in 1..Len(items) : IsRowAmount(t.rowAmount[k], items[k])
    /\ t.calculatedSubtotal = SumSeq(t.rowAmount)

\* C13: every row amount computed or shown is round(unitPrice / taxFactor) x
\* quantity in tax-inclusive mode and unitPrice x quantity otherwise, in either
\* QuotationPreview, and the subtotal is the sum of these row amounts.
C13_RowAmounts ==
    /\ totals # none => RowAmountsOf(totals)
    /\ totalsV1 # none => RowAmountsOf(totalsV1)

\* the part of C13 that the paginated QuotationPreview does satisfy
C13_PaginatedOnly == totals # none => RowAmountsOf(totals)

\* C14: the effective unit price is unitPrice / taxFactor rounded half away
\* from zero, for negative prices too, and is the price itself in
\* tax-exclusive mode.
C14_HalfAwayFromZero ==
    totals # none =>
        \A k \in 1..Len(items) :
            totals.effectiveUnitPrice[k] =
                (IF isTaxInclusive
                 THEN RoundHalfAway(100 * items[k].price, 100 + taxRate)
                 ELSE items[k].price)

\* C15: the taxable amount is max(0, subtotal - discount), never negative, and
\* a discount of the subtotal or more gives taxable amount, tax and total 0.
C15_Of(t) ==
    /\ t.taxableAmount =
          (IF t.calculatedSubtotal - discount > 0
           THEN t.calculatedSubtotal - discount ELSE 0)
    /\ t.taxableAmount >= 0
    /\ discount >= t.calculatedSubtotal =>
          t.taxableAmount = 0 /\ t.taxAmount = 0 /\ t.total = 0

C15_TaxableAmount ==
    /\ totals # none => C15_Of(totals)
    /\ totalsV1 # none => C15_Of(totalsV1)

C15_Witness ==
    /\ totals # none
    /\ totals.calculatedSubtotal > 0
    /\ discount > totals.calculatedSubtotal
    /\ taxRate > 0
    /\ totals.total = 0

\* C16: the tax is the taxable amount times the rate, rounded once on the
\* aggregate, and the total is taxable amount plus tax; 10000 at 5 percent,
\* no discount, tax-exclusive gives 10000, 500 and 10500.
C16_Of(t) ==
    /\ t.taxAmount = RoundHalfAway(t.taxableAmount * taxRate, 100)
    /\ t.total = t.taxableAmount + t.taxAmount
    /\ (t.calculatedSubtotal = 10000 /\ discount = 0 /\ taxRate = 5) =>
          t.taxableAmount = 10000 /\ t.taxAmount = 500 /\ t.total = 10500

C16_TaxOnAggregate ==
    /\ totals # none => C16_Of(totals)
    /\ totalsV1 # none => C16_Of(totalsV1)

\* two rows of 10 at 5 percent: the tax of the 20 is 1, the taxes of the rows
\* would add up to 2
C16_Witness ==
    /\ totals # none
    /\ ~isTaxInclusive
    /\ taxRate = 5
    /\ discount = 0
    /\ Len(items) = 2
    /\ totals.rowAmount = <<10, 10>>
    /\ totals.taxAmount = 1
    /\ totals.total = 21
    /\ RoundHalfAway(10 * taxRate, 100) + RoundHalfAway(10 * taxRate, 100) = 2

----------------------------------------------------------------------------
(* Properties of the item handlers *)

\* the list s without its element at 0-based index i
Without(s, i) == [k \in 1..(Len(s) - 1) |-> IF k <= i THEN s[k] ELSE s[k + 1]]

\* how often x occurs in the list s
Occurrences(s, x) == Cardinality({k \in 1..Len(s) : s[k] = x})

\* C17: whatever items are added, deleted, edited and moved, starting from the
\* initial one-item quotation, the list keeps at least one item.
C17_NeverEmpty == Len(items) >= 1

\* C18: the ids of the items in the list are pairwise distinct, also after
\* items were added in quick succession.
C18_UniqueIds ==
    \A i \in 1..Len(items) : \A j \in 1..Len(items) :
        i # j => items[i].id # items[j].id

\* C19: addItem appends exactly one item, with price 0 and no description, and
\* leaves the items that were there, their fields and their order as they were.
C19_Step ==
    addItem =>
        /\ Len(items') = Len(items) + 1
        /\ SubSeq(items', 1, Len(items)) = items
        /\ items'[Len(items')].price = 0
        /\ items'[Len(items')].description = null

C19_AddItemAppends == [][C19_Step]_vars

C19_Witness ==
    /\ Len(items) = 2
    /\ items[1] = [initialItem EXCEPT !.price = 100, !.name = <<"x">>]
    /\ items[2].price = 0
    /\ items[2].description = null
    /\ items[2].id = now

\* C20: ending a drag of the row at index from on the row at index to gives a
\* list of the same length and the same items, with the dragged item at index
\* to and the other items in their order; a drop on the row itself, or a drag
\* that ends without source or target, leaves the list as it was.
C20_Step ==
    handleSort =>
        IF dragItem # nullIndex /\ dragOverItem # nullIndex /\ dragItem # dragOverItem
        THEN /\ Len(items') = Len(items)
             /\ \A k \in 1..Len(items) :
                   Occurrences(items', items[k]) = Occurrences(items, items[k])
             /\ items'[dragOverItem + 1] = items[dragItem + 1]
             /\ Without(items', dragOverItem) = Without(items, dragItem)
        ELSE items' = items

C20_MoveItem == [][C20_Step]_vars

\* the first of three rows was dropped on the last
C20_Witness ==
    /\ ~dragging
    /\ dragItem = nullIndex
    /\ Len(items) = 3
    /\ items[1].id = 2
    /\ items[2].id = 3
    /\ items[3].id = 1

----------------------------------------------------------------------------
(* Properties of the planned pages, continued *)

\* the header height the planner charges to page number p (1-based)
HeaderOf(p) == IF p = 1 THEN HEADER_HEIGHT ELSE PAGE_2_HEADER_HEIGHT

\* C25: for a non-empty item list every page the planner returns holds at
\* least one item; page 1 is never left without a row.
C25_NoEmptyPage ==
    (Planned /\ items # <<>>) => \A p \in 1..Len(pages) : pages[p] # <<>>

\* C26: a page that holds two or more items stays within the budget: its
\* header height plus the heights of its items is at most contentHeight minus
\* bottomSpacer; only a page of one item may exceed it.
C26_PageBudget ==
    Planned =>
        \A p \in 1..Len(pages) :
            Len(pages[p]) >= 2 =>
                HeaderOf(p) + SumHeights(pages[p]) <= A4_CONTENT_HEIGHT - BOTTOM_SPACER

C26_Witness ==
    /\ Planned
    /\ \E p \in 1..Len(pages) :
          /\ Len(pages[p]) >= 2
          /\ p < Len(pages)
          /\ HeaderOf(p) + SumHeights(pages[p]) + getItemHeight(pages[p + 1][1])
                 > A4_CONTENT_HEIGHT - BOTTOM_SPACER
    /\ \E p \in 1..Len(pages) :
          /\ Len(pages[p]) = 1
          /\ HeaderOf(p) + SumHeights(pages[p]) > A4_CONTENT_HEIGHT - BOTTOM_SPACER

\* C27: when the last page, which carries the footer, holds two or more items,
\* its header height plus the heights of its items plus the footer height is at
\* most contentHeight.
C27_FooterFits ==
    (Planned /\ rendered[Len(pages)].footer /\ Len(pages[Len(pages)]) >= 2) =>
        HeaderOf(Len(pages)) + SumHeights(pages[Len(pages)]) + FOOTER_HEIGHT
            <= A4_CONTENT_HEIGHT

\* the list r differs from the list s in no more than the named field of the
\* items of s whose id is id, which holds value in r
OnlyFieldChanged(s, r, id, field, value) ==
    /\ Len(r) = Len(s)
    /\ \A k \in 1..Len(s) :
          IF s[k].id = id
          THEN /\ r[k][field] = value
               /\ \A g \in DOMAIN s[k] \ {field} : r[k][g] = s[k][g]
          ELSE r[k] = s[k]

\* what updateItem gives on the current list, for every id, field and value
C24_OfFunction ==
    \A id \in UpdateIds : \A field \in DOMAIN UpdateValues :
        \A value \in UpdateValues[field] :
            LET r == updateItemResult(items, id, field, value)
            IN  /\ OnlyFieldChanged(items, r, id, field, value)
                /\ (\A k \in 1..Len(items) : items[k].id # id) => r = items

C24_Step ==
    updateItem =>
        \E id \in UpdateIds : \E field \in DOMAIN UpdateValues :
            \E value \in UpdateValues[field] :
                OnlyFieldChanged(items, items', id, field, value)

\* C24: updateItem(id, field, value) changes only the named field of the items
\* whose id matches; their other fields, the other items, the length and the
\* order of the list stay, and an id of no item leaves the list unchanged.
C24_UpdateItemFrame == [](C24_OfFunction) /\ [][C24_Step]_vars

C24_Witness ==
    /\ Len(items) = 2
    /\ items[1] = [initialItem EXCEPT !.price = 100]
    /\ items[2] = newItem(now)

----------------------------------------------------------------------------
(* Properties of the application *)

\* C21: a cloud save, fetch or delete is in flight, and App is shown, only when
\* a sign-in has succeeded; a failed sign-in does not call onLogin.
C21_AuthGate ==
    /\ (ops # {} \/ mounted \/ authed) => currentUser = "user"
    /\ (signIn = "pending" /\ ~authed) => ops = {}

C21_Witness ==
    /\ currentUser = "user"
    /\ \E op \in ops : op.kind = "delete" /\ op.stage = "deleteDoc"

\* the records of the store are told apart by their id, which is the fileName
\* of the document they hold and is not blank
KeyedByFileName ==
    /\ \A r1 \in store : \A r2 \in store : r1.id = r2.id => r1 = r2
    /\ \A r \in store : r.id = r.data.fileName /\ ~isBlank(r.id)

\* a step that changes the store writes the document of a save under its
\* fileName, in place of the record of that name, or removes the record of the
\* name of a delete; the other records stay
StoreStep ==
    store' # store =>
        \E op \in ops :
            \/ /\ op.stage = "setDoc"
               /\ [id |-> op.doc.fileName, data |-> op.doc] \in store'
               /\ \A r \in store : r.id # op.doc.fileName => r \in store'
               /\ \A r \in store' : r.id # op.doc.fileName => r \in store
               /\ \A r \in store' : r.id = op.doc.fileName => r.data = op.doc
            \/ /\ op.stage = "deleteDoc"
               /\ store' = store \ {r \in store : r.id = op.modal.file.fileName}
               /\ Cardinality(store') = Cardinality(store) - 1

\* handleSave with a blank fileName starts nothing
BlankSaveStep ==
    (handleSave /\ isBlank(fileName)) => (ops' = ops /\ isLoading' = isLoading)

\* C22: the store holds at most one record per fileName; a save under a
\* fileName replaces the record of that name by the new document, a delete
\* removes exactly the record of its fileName, and handleSave with an empty or
\* whitespace-only fileName writes nothing.
C22_KeyedStore ==
    [](KeyedByFileName) /\ [][StoreStep]_vars /\ [][BlankSaveStep]_vars

\* the record of "A" was replaced after the file list was fetched, and the
\* record of "B" is beside it
C22_Witness ==
    /\ Cardinality(store) = 2
    /\ \E r \in store : \E f \in savedFiles :
          r.id = f.fileName /\ r.data # f

\* a blank item, as handleCreateNew makes it
IsBlankItem(item) ==
    /\ item.name = <<>>
    /\ item.spec = <<>>
    /\ item.description = null
    /\ item.quantity = 1
    /\ item.price = 0

\* a cloud delete is awaited only for the answer of the problem of its dialog
DeleteNeedsAnswer ==
    \A op \in ops :
        op.kind = "delete" => op.selectedAnswer = op.modal.problem.answer

\* a click in the dialog that closes it (a wrong option, or cancel) starts no
\* cloud operation and leaves the document as it is
DialogClosedStep ==
    ((confirmDelete \/ cancelDelete) /\ ~deleteModal'.isOpen) =>
        (ops' = ops /\ store' = store /\ quotation' = quotation)

\* the delete of op has succeeded and its handler runs to its end in this step
DeleteDone(op) ==
    /\ op \in ops
    /\ op.kind = "delete"
    /\ op.stage = "getDocs"
    /\ getDocsSettledOf("delete")
    /\ ops' = ops \ {op}
    /\ deleteModal' = [op.modal EXCEPT !.isOpen = FALSE]

\* when the deleted file is the one open, the document becomes a new one
ResetStep ==
    \A op \in ops :
        (DeleteDone(op) /\ fileName = op.modal.file.fileName) =>
            (fileName' = <<>> /\ Len(items') = 1 /\ IsBlankItem(items'[1]))

\* C29: a stored quotation is deleted only after the option equal to the answer
\* was selected; another option, or cancel, closes the dialog, deletes nothing
\* and leaves the open document unchanged; after a successful delete of the
\* file that is open, the document is a new one: empty fileName, one blank item.
C29_ConfirmedDelete ==
    [](DeleteNeedsAnswer) /\ [][DialogClosedStep]_vars /\ [][ResetStep]_vars

\* the parts of C29 about the dialog alone
C29_DialogOnly == [](DeleteNeedsAnswer) /\ [][DialogClosedStep]_vars

\* a save or a delete fails: its handler ends at the first await
CloudFailure ==
    \E op \in ops :
        /\ op.stage \in {"setDoc", "deleteDoc"}
        /\ setDocSettled \/ deleteDocSettled
        /\ ops' = ops \ {op}
        /\ isLoading' = FALSE

FailureStep == CloudFailure => quotation' = quotation

\* C30: once isLoading is set by a save or a confirmed delete it is reset when
\* the cloud operation has settled, with success or failure, and a failure
\* leaves the open document unchanged; the loading flag of the sign-in form is
\* reset after every sign-in attempt.
C30_LoadingResets ==
    /\ isLoading ~> ~isLoading
    /\ loading ~> ~loading
    /\ [][FailureStep]_vars

\* a confirmed delete is past its first await and isLoading is still set
C30_Witness ==
    /\ isLoading
    /\ \E op \in ops : op.kind = "delete" /\ op.stage = "getDocs"

\* the theme is read at startup: the remembered one, or the default
StartupStep ==
    Mount =>
        themeColor' = IF app_theme_color \in {"null", ""}
                      THEN DefaultTheme ELSE app_theme_color

\* a file is loaded while a theme is remembered: the theme stays
LoadStep ==
    (handleLoad /\ app_theme_color \notin {"null", ""}) =>
        (themeColor' = themeColor /\ fileName' # <<>>)

\* C23: the theme is read at startup; after theme changes, file loads and new
\* documents, once the persistence effect has run, the remembered theme is the
\* themeColor of the document; a file loaded while a theme is remembered keeps
\* the current theme, not its own.
C23_ThemeLifecycle ==
    /\ []((mounted /\ ~effectPending) => app_theme_color = themeColor)
    /\ [][StartupStep]_vars
    /\ [][LoadStep]_vars

\* the file "A" is open with a theme that is not the one it was saved with
C23_Witness ==
    /\ mounted /\ ~effectPending
    /\ fileName = <<"A">>
    /\ themeColor # DefaultTheme
    /\ app_theme_color = themeColor
    /\ \E f \in savedFiles : f.fileName = fileName /\ f.themeColor \notin {themeColor, DefaultTheme}

\* the callback of an upload leaves everything but the logo and the seal
UploadStep ==
    imgOnload =>
        /\ items' = items
        /\ discount' = discount
        /\ taxRate' = taxRate
        /\ isTaxInclusive' = isTaxInclusive
        /\ fileName' = fileName
        /\ themeColor' = themeColor
        /\ logo' = logo \/ seal' = seal

\* C28: an upload that completes changes only the logo or the seal: the items
\* added, edited, deleted or moved, and the discount or tax rate set, between
\* the choice of the file and the end of the loading are still in the document.
C28_UploadKeepsEdits == [][UploadStep]_vars

====
